---- MODULE Spec2Model ----
(***************************************************************************)
(* Model of the job-board backend's ORM layer (src/models.py): the five    *)
(* mapped classes User, Job, JobApplication, Payment and ExtraResource,    *)
(* their @validates hooks, their relationship cascades and their to_dict   *)
(* serializers.                                                            *)
(*                                                                         *)
(* Conventions.  An attribute value is None or Some(v).  A string whose    *)
(* characters matter (an email) is a sequence of one-character strings.    *)
(* A validator returns the outcome of the assignment: "ok" when the hook   *)
(* returns the value, "ValueError" when it raises its own error and        *)
(* "TypeError" when the comparison in it is not defined for the operands   *)
(* (an ordering comparison with None).  An assignment whose hook raises    *)
(* leaves the attribute as it was.                                         *)
(***************************************************************************)
EXTENDS Integers, Sequences, FiniteSets

VARIABLES
    users,          \* rows of table users: set of user_id
    jobs,           \* rows of table jobs: set of job_id
    payments,       \* rows of table payments: [payment_id, user_id]
    applications,   \* rows of table job_applications: [application_id, user_id, job_id]
    resources,      \* rows of table extra_resources: [resource_id, job]
    storeLast,      \* the last store operation and what it removed
    user,           \* a User object: its column attributes
    userLast,       \* the last operation on the User object
    emailArg,       \* the string handed to User.email
    payment,        \* a Payment object: its column attributes
    paymentLast,    \* the last assignment to the Payment object
    job,            \* a Job object: its column attributes
    now,            \* the clock
    jobLast         \* the last assignment to the Job object

storeVars == <<users, jobs, payments, applications, resources, storeLast>>
userVars == <<user, userLast, emailArg>>
paymentVars == <<payment, paymentLast>>
jobVars == <<job, now, jobLast>>
vars == <<storeVars, userVars, paymentVars, jobVars>>

\* An attribute value is None or Some(v); Val unwraps a value that is not
\* None.
None == {}
Some(v) == {v}
Val(o) == CHOOSE v \in o : TRUE

(***************************************************************************)
(* Entity store: session.add / session.delete on the mapped classes.       *)
(***************************************************************************)

\* Largest number of rows the store holds over all five tables together.
MaxRows == 4

Max(S) == IF S = {} THEN 0 ELSE CHOOSE m \in S : \A x \in S : x <= m

\* Integer primary key of a new row: one more than the largest key in use.
NewId(ids) == Max(ids) + 1

\* Largest primary key the model hands out.
MaxId == 2

RowCount ==
    Cardinality(users) + Cardinality(jobs) + Cardinality(payments)
        + Cardinality(applications) + Cardinality(resources)

\* Relationships of User declared with cascade="all, delete".
User_cascade_without_payments == {"job_applications"}
User_cascade == {"payments", "job_applications"}

\* Relationships of Job declared with cascade="all, delete".
Job_cascade == {"job_applications"}

CreateUser ==
    /\ RowCount < MaxRows
    /\ NewId(users) <= MaxId
    /\ users' = users \cup {NewId(users)}
    /\ storeLast' = [op |-> "create_user", id |-> NewId(users), removed |-> 0]
    /\ UNCHANGED <<jobs, payments, applications, resources>>
    /\ UNCHANGED <<userVars, paymentVars, jobVars>>

CreateJob ==
    /\ RowCount < MaxRows
    /\ NewId(jobs) <= MaxId
    /\ jobs' = jobs \cup {NewId(jobs)}
    /\ storeLast' = [op |-> "create_job", id |-> NewId(jobs), removed |-> 0]
    /\ UNCHANGED <<users, payments, applications, resources>>
    /\ UNCHANGED <<userVars, paymentVars, jobVars>>

\* Payment.user_id is a non-null foreign key to users.user_id.
CreatePayment(u) ==
    /\ RowCount < MaxRows
    /\ u \in users
    /\ LET pid == NewId({p.payment_id : p \in payments})
       IN  /\ pid <= MaxId
           /\ payments' = payments \cup {[payment_id |-> pid, user_id |-> u]}
           /\ storeLast' = [op |-> "create_payment", id |-> pid, removed |-> 0]
    /\ UNCHANGED <<users, jobs, applications, resources>>
    /\ UNCHANGED <<userVars, paymentVars, jobVars>>

\* JobApplication.user_id and .job_id are non-null foreign keys.
CreateApplication(u, j) ==
    /\ RowCount < MaxRows
    /\ u \in users
    /\ j \in jobs
    /\ LET aid == NewId({a.application_id : a \in applications})
       IN  /\ aid <= MaxId
           /\ applications' = applications \cup
                  {[application_id |-> aid, user_id |-> u, job_id |-> j]}
           /\ storeLast' = [op |-> "create_application", id |-> aid, removed |-> 0]
    /\ UNCHANGED <<users, jobs, payments, resources>>
    /\ UNCHANGED <<userVars, paymentVars, jobVars>>

\* ExtraResource has no foreign key and no relationship to Job.  The field
\* job is the plain attribute `job` that ExtraResource.to_dict reads: the
\* job the resource was created for.  No column of the table stores it.
CreateResource(j) ==
    /\ RowCount < MaxRows
    /\ j \in jobs
    /\ LET rid == NewId({r.resource_id : r \in resources})
       IN  /\ rid <= MaxId
           /\ resources' = resources \cup {[resource_id |-> rid, job |-> j]}
           /\ storeLast' = [op |-> "create_resource", id |-> rid, removed |-> 0]
    /\ UNCHANGED <<users, jobs, payments, applications>>
    /\ UNCHANGED <<userVars, paymentVars, jobVars>>

\* session.delete(user): the delete cascades along User.payments and
\* User.job_applications.
DeleteUser(u) ==
    /\ u \in users
    /\ users' = users \ {u}
    /\ LET ps == IF "payments" \in User_cascade
                 THEN {p \in payments : p.user_id = u} ELSE {}
           as == IF "job_applications" \in User_cascade
                 THEN {a \in applications : a.user_id = u} ELSE {}
       IN  /\ payments' = payments \ ps
           /\ applications' = applications \ as
           /\ storeLast' = [op |-> "delete_user", id |-> u,
                            removed |-> Cardinality(ps) + Cardinality(as)]
    /\ UNCHANGED <<jobs, resources>>
    /\ UNCHANGED <<userVars, paymentVars, jobVars>>

\* session.delete(job): the delete cascades along Job.job_applications, the
\* only relationship Job declares.
DeleteJob(j) ==
    /\ j \in jobs
    /\ jobs' = jobs \ {j}
    /\ LET as == IF "job_applications" \in Job_cascade
                 THEN {a \in applications : a.job_id = j} ELSE {}
       IN  /\ applications' = applications \ as
           /\ storeLast' = [op |-> "delete_job", id |-> j,
                            removed |-> Cardinality(as)]
    /\ UNCHANGED <<users, payments, resources>>
    /\ UNCHANGED <<userVars, paymentVars, jobVars>>

DeletePayment(p) ==
    /\ p \in payments
    /\ payments' = payments \ {p}
    /\ storeLast' = [op |-> "delete_payment", id |-> p.payment_id, removed |-> 0]
    /\ UNCHANGED <<users, jobs, applications, resources>>
    /\ UNCHANGED <<userVars, paymentVars, jobVars>>

DeleteApplication(a) ==
    /\ a \in applications
    /\ applications' = applications \ {a}
    /\ storeLast' = [op |-> "delete_application", id |-> a.application_id,
                     removed |-> 0]
    /\ UNCHANGED <<users, jobs, payments, resources>>
    /\ UNCHANGED <<userVars, paymentVars, jobVars>>

StoreInit ==
    /\ users = {}
    /\ jobs = {}
    /\ payments = {}
    /\ applications = {}
    /\ resources = {}
    /\ storeLast = [op |-> "none", id |-> 0, removed |-> 0]

StoreNext ==
    \/ CreateUser
    \/ CreateJob
    \/ \E u \in users : CreatePayment(u)
    \/ \E u \in users, j \in jobs : CreateApplication(u, j)
    \/ \E j \in jobs : CreateResource(j)
    \/ \E u \in users : DeleteUser(u)
    \/ \E j \in jobs : DeleteJob(j)
    \/ \E p \in payments : DeletePayment(p)
    \/ \E a \in applications : DeleteApplication(a)

(***************************************************************************)
(* to_dict.  Each class is given by the attributes it defines (columns and *)
(* relationships); to_dict builds a dict display whose values are read     *)
(* left to right, and the first read of an attribute the object does not   *)
(* have raises AttributeError and ends the call.                           *)
(***************************************************************************)

User_attrs ==
    {"user_id", "role", "name", "email", "password_hash", "payments",
     "job_applications"}
Job_attrs ==
    {"job_id", "job_name", "job_description", "location", "requirements",
     "salary", "posted_date", "expiration_date", "job_applications"}
JobApplication_attrs == {"application_id", "user_id", "job_id", "user", "job"}
Payment_attrs ==
    {"payment_id", "user_id", "amount", "payment_date", "payment_method", "user"}
ExtraResource_attrs == {"resource_id", "title", "description"}

\* The first of the attributes names, read in order, that the class lacks.
FirstMissing(attrs, names) ==
    IF \E i \in 1..Len(names) : names[i] \notin attrs
    THEN Some(names[CHOOSE i \in 1..Len(names) :
                  /\ names[i] \notin attrs
                  /\ \A k \in 1..(i - 1) : names[k] \in attrs])
    ELSE None

\* The attributes of a User and of a Job that the embedding serializers
\* read through self.user and self.job.
UserSummary == <<"username", "email", "phone", "role", "date_joined">>
JobSummary ==
    <<"title", "description", "location", "salary_min", "salary_max",
      "job_type", "skills_required", "benefits", "application_deadline",
      "employer", "employer_email", "employer_phone", "date_posted",
      "is_active">>

\* The first AttributeError among reads made one after the other.
FirstRaised(rs) ==
    IF \E i \in 1..Len(rs) : rs[i] # None
    THEN rs[CHOOSE i \in 1..Len(rs) :
                rs[i] # None /\ \A k \in 1..(i - 1) : rs[k] = None]
    ELSE None

\* A serializer's result: the attribute whose read raised (None: the dict
\* was returned) and the dicts of the related rows embedded in it.
Payment_to_dict(p) ==
    [raised |-> FirstRaised(<<
         FirstMissing(Payment_attrs,
                      <<"amount", "payment_date", "payment_status", "user">>),
         FirstMissing(User_attrs, UserSummary)>>),
     embedded |-> {}]

JobApplication_to_dict(a) ==
    [raised |-> FirstRaised(<<
         FirstMissing(JobApplication_attrs,
                      <<"application_date", "status", "user">>),
         FirstMissing(User_attrs, UserSummary),
         FirstMissing(JobApplication_attrs, <<"job">>),
         FirstMissing(Job_attrs, JobSummary)>>),
     embedded |-> {}]

ExtraResource_to_dict(r) ==
    [raised |-> FirstRaised(<<
         FirstMissing(ExtraResource_attrs,
                      <<"resource_name", "description", "resource_type", "job">>),
         FirstMissing(Job_attrs, JobSummary)>>),
     embedded |-> {}]

User_to_dict(u) ==
    LET own == FirstMissing(User_attrs, UserSummary \o <<"payments">>)
        ps == {Payment_to_dict(p) : p \in {q \in payments : q.user_id = u}}
        apps == FirstMissing(User_attrs, <<"applications">>)
        as == {JobApplication_to_dict(a) :
                  a \in {b \in applications : b.user_id = u}}
    IN  IF own # None THEN [raised |-> own, embedded |-> {}]
        ELSE IF \E d \in ps : d.raised # None
        THEN [raised |-> (CHOOSE d \in ps : d.raised # None).raised,
              embedded |-> {}]
        ELSE IF apps # None THEN [raised |-> apps, embedded |-> {}]
        ELSE IF \E d \in as : d.raised # None
        THEN [raised |-> (CHOOSE d \in as : d.raised # None).raised,
              embedded |-> {}]
        ELSE [raised |-> None, embedded |-> ps \cup as]

Job_to_dict(j) ==
    LET own == FirstMissing(Job_attrs, JobSummary \o <<"applications">>)
        as == {JobApplication_to_dict(a) :
                  a \in {b \in applications : b.job_id = j}}
        res == FirstMissing(Job_attrs, <<"extra_resources">>)
        rs == {ExtraResource_to_dict(r) : r \in {q \in resources : q.job = j}}
    IN  IF own # None THEN [raised |-> own, embedded |-> {}]
        ELSE IF \E d \in as : d.raised # None
        THEN [raised |-> (CHOOSE d \in as : d.raised # None).raised,
              embedded |-> {}]
        ELSE IF res # None THEN [raised |-> res, embedded |-> {}]
        ELSE IF \E d \in rs : d.raised # None
        THEN [raised |-> (CHOOSE d \in rs : d.raised # None).raised,
              embedded |-> {}]
        ELSE [raised |-> None, embedded |-> as \cup rs]

(***************************************************************************)
(* Attribute assignment under @validates.  The hook of the attribute runs  *)
(* before the value is stored; when it raises, nothing is stored.          *)
(***************************************************************************)

SetattrIgnoringOutcome(obj, key, value, outcome) == [obj EXCEPT ![key] = value]
Setattr(obj, key, value, outcome) ==
    IF outcome = "ok" THEN [obj EXCEPT ![key] = value] ELSE obj

(***************************************************************************)
(* class User                                                              *)
(***************************************************************************)

\* Longest string handed to User.email.
MaxEmailLen == 6

Alphabet == {"a", "@", "."}

\* Every string of at most MaxEmailLen characters of Alphabet.
EmailStrings == UNION {[1..n -> Alphabet] : n \in 0..MaxEmailLen}

NoAt(s, from, to) == \A x \in from..to : s[x] # "@"

\* The whole of s has the form local@domain.tld: the three groups of the
\* pattern, of lengths i, j and k, and the two separators make up s.
LocalAtDomainTld(s) ==
    \E i \in 1..Len(s), j \in 1..Len(s), k \in 1..Len(s) :
        /\ i + j + k + 2 = Len(s)
        /\ NoAt(s, 1, i)
        /\ s[i + 1] = "@"
        /\ NoAt(s, i + 2, i + 1 + j)
        /\ s[i + 2 + j] = "."
        /\ NoAt(s, i + 3 + j, i + 2 + j + k)

\* re.match(r"[^@]+@[^@]+\.[^@]+", s): the pattern is matched at the start
\* of s and the match may end anywhere.  i, j and k are the lengths of the
\* three [^@]+ groups.
re_match(s) ==
    \E i \in 1..Len(s), j \in 1..Len(s), k \in 1..Len(s) :
        /\ i + j + k + 2 <= Len(s)
        /\ NoAt(s, 1, i)
        /\ s[i + 1] = "@"
        /\ NoAt(s, i + 2, i + 1 + j)
        /\ s[i + 2 + j] = "."
        /\ NoAt(s, i + 3 + j, i + 2 + j + k)

\* re.match(pattern, None) raises TypeError.
validate_email(email) ==
    IF email = None THEN "TypeError"
    ELSE IF ~re_match(Val(email)) THEN "ValueError" ELSE "ok"

validate_role(role) ==
    IF role \notin {Some("normal"), Some("premium"), Some("admin")}
    THEN "ValueError" ELSE "ok"

\* len(None) raises TypeError.
validate_password_hash(password_hash) ==
    IF password_hash = None THEN "TypeError"
    ELSE IF Len(Val(password_hash)) < 6 THEN "ValueError" ELSE "ok"

\* The hook that runs when User.<key> is assigned.  Only email, role and
\* password_hash have one; user_id and name are stored as given.
User_validates_with_name_rule(key, value) ==
    CASE key = "email" -> validate_email(value)
      [] key = "role" -> validate_role(value)
      [] key = "password_hash" -> validate_password_hash(value)
      [] key = "name" -> IF Len(Val(value)) < 3 THEN "ValueError" ELSE "ok"
      [] OTHER -> "ok"
User_validates(key, value) ==
    CASE key = "email" -> validate_email(value)
      [] key = "role" -> validate_role(value)
      [] key = "password_hash" -> validate_password_hash(value)
      [] OTHER -> "ok"

Str(n) == [x \in 1..n |-> "a"]

NameSamples == {Str(2), Str(3)}
EmailSamples == {<<"a", "@", "a", ".", "a">>, <<"a", "@", "a">>}
RoleSamples == {"premium", "guest"}
PasswordSamples == {Str(5), Str(6)}

\* The assignments key := value the model makes to a User.
UserAssignments ==
    {<<"name", Some(v)>> : v \in NameSamples}
        \cup {<<"email", Some(v)>> : v \in EmailSamples}
        \cup {<<"role", Some(v)>> : v \in RoleSamples}
        \cup {<<"password_hash", Some(v)>> : v \in PasswordSamples}

\* A User() before any attribute is assigned.
BlankUser == [name |-> None, email |-> None, role |-> None, password_hash |-> None]

\* Assignments as[i..] made to obj in order; the first hook that raises
\* ends the operation.  Result: the object and the index that raised (0:
\* none).
RECURSIVE UserAssignAll(_, _, _)
UserAssignAll(obj, as, i) ==
    IF i > Len(as) THEN [obj |-> obj, failedAt |-> 0]
    ELSE LET outcome == User_validates(as[i][1], as[i][2])
         IN  IF outcome = "ok"
             THEN UserAssignAll(Setattr(obj, as[i][1], as[i][2], outcome), as, i + 1)
             ELSE [obj |-> Setattr(obj, as[i][1], as[i][2], outcome), failedAt |-> i]

\* An operation assigns one attribute or two, in the order listed.
AssignmentLists ==
    {<<a>> : a \in UserAssignments}
        \cup {<<a, b>> : a \in UserAssignments, b \in UserAssignments}

\* user.<k1> = v1; user.<k2> = v2; ... on the existing object.
UpdateUser(as) ==
    /\ emailArg = None
    /\ LET r == UserAssignAll(user, as, 1)
       IN  /\ user' = r.obj
           /\ userLast' = [op |-> "update", as |-> as, failedAt |-> r.failedAt,
                           before |-> user]
    /\ UNCHANGED emailArg
    /\ UNCHANGED <<storeVars, paymentVars, jobVars>>

\* User(k1=v1, k2=v2, ...): the constructor assigns the keyword arguments
\* in order to a new object; when a hook raises, the constructor raises and
\* no new object results.
NewUser(as) ==
    /\ emailArg = None
    /\ LET r == UserAssignAll(BlankUser, as, 1)
       IN  /\ user' = IF r.failedAt = 0 THEN r.obj ELSE user
           /\ userLast' = [op |-> "new", as |-> as, failedAt |-> r.failedAt,
                           before |-> user]
    /\ UNCHANGED emailArg
    /\ UNCHANGED <<storeVars, paymentVars, jobVars>>

\* user.email = emailArg, once, for a string of the bounded alphabet.
AssignEmail ==
    /\ emailArg # None
    /\ userLast.op = "none"
    /\ LET r == UserAssignAll(user, <<<<"email", emailArg>>>>, 1)
       IN  /\ user' = r.obj
           /\ userLast' = [op |-> "update", as |-> <<<<"email", emailArg>>>>,
                           failedAt |-> r.failedAt, before |-> user]
    /\ UNCHANGED emailArg
    /\ UNCHANGED <<storeVars, paymentVars, jobVars>>

UserInit ==
    /\ user = BlankUser
    /\ userLast = [op |-> "none", as |-> <<>>, failedAt |-> 0, before |-> BlankUser]
    /\ emailArg = None

UserNext ==
    \/ \E as \in AssignmentLists : UpdateUser(as)
    \/ \E as \in AssignmentLists : NewUser(as)

EmailInit ==
    /\ user = BlankUser
    /\ userLast = [op |-> "none", as |-> <<>>, failedAt |-> 0, before |-> BlankUser]
    /\ emailArg \in {Some(e) : e \in EmailStrings}

(***************************************************************************)
(* class Payment                                                           *)
(***************************************************************************)

\* None <= 0 raises TypeError.
validate_amount_nonnegative(amount) ==
    IF amount = None THEN "TypeError"
    ELSE IF Val(amount) < 0 THEN "ValueError" ELSE "ok"
validate_amount(amount) ==
    IF amount = None THEN "TypeError"
    ELSE IF Val(amount) <= 0 THEN "ValueError" ELSE "ok"

validate_payment_method(payment_method) ==
    IF payment_method \notin {Some("credit_card"), Some("paypal")}
    THEN "ValueError" ELSE "ok"

Payment_validates(key, value) ==
    CASE key = "amount" -> validate_amount(value)
      [] key = "payment_method" -> validate_payment_method(value)
      [] OTHER -> "ok"

AmountSamples == {-1, 0, 1, 100, 4999, 5000, 5001}
MethodSamples == {"credit_card", "paypal", "cash"}

PaymentAssignments ==
    {<<"amount", Some(v)>> : v \in AmountSamples}
        \cup {<<"amount", None>>}
        \cup {<<"payment_method", Some(v)>> : v \in MethodSamples}

BlankPayment == [amount |-> None, payment_method |-> None]

\* payment.<key> = value
AssignPayment(key, value) ==
    /\ LET outcome == Payment_validates(key, value)
       IN  /\ payment' = Setattr(payment, key, value, outcome)
           /\ paymentLast' = [key |-> key, value |-> value, outcome |-> outcome,
                              before |-> payment]
    /\ UNCHANGED <<storeVars, userVars, jobVars>>

PaymentInit ==
    /\ payment = BlankPayment
    /\ paymentLast = [key |-> "none", value |-> None, outcome |-> "none",
                      before |-> BlankPayment]

PaymentNext == \E a \in PaymentAssignments : AssignPayment(a[1], a[2])

(***************************************************************************)
(* class Job                                                               *)
(***************************************************************************)

\* Latest reading of the clock.
MaxTime == 3

Times == 0..(MaxTime + 1)

\* None <= 0 raises TypeError.
validate_salary_nonnegative(salary) ==
    IF salary = None THEN "TypeError"
    ELSE IF Val(salary) < 0 THEN "ValueError" ELSE "ok"
validate_salary(salary) ==
    IF salary = None THEN "TypeError"
    ELSE IF Val(salary) <= 0 THEN "ValueError" ELSE "ok"

\* The date is compared with self.posted_date; an ordering comparison with
\* None raises TypeError.
validate_expiration_date_against_clock(self, expiration_date) ==
    IF expiration_date = None THEN "TypeError"
    ELSE IF Val(expiration_date) <= now THEN "ValueError" ELSE "ok"
validate_expiration_date(self, expiration_date) ==
    IF expiration_date = None \/ self.posted_date = None THEN "TypeError"
    ELSE IF Val(expiration_date) <= Val(self.posted_date) THEN "ValueError"
    ELSE "ok"

\* db.func.current_timestamp() is read as the current time of the clock.
validate_posted_date(posted_date) ==
    IF posted_date = None THEN "TypeError"
    ELSE IF Val(posted_date) > now THEN "ValueError" ELSE "ok"

Job_validates(self, key, value) ==
    CASE key = "salary" -> validate_salary(value)
      [] key = "expiration_date" -> validate_expiration_date(self, value)
      [] key = "posted_date" -> validate_posted_date(value)
      [] OTHER -> "ok"

SalarySamples == {-1, 0, 1}

JobAssignments ==
    {<<"salary", Some(v)>> : v \in SalarySamples}
        \cup {<<"salary", None>>}
        \cup {<<"posted_date", Some(t)>> : t \in Times}
        \cup {<<"expiration_date", Some(t)>> : t \in Times}

BlankJob == [salary |-> None, posted_date |-> None, expiration_date |-> None]

\* job.<key> = value
AssignJob(key, value) ==
    /\ LET outcome == Job_validates(job, key, value)
       IN  /\ job' = Setattr(job, key, value, outcome)
           /\ jobLast' = [key |-> key, value |-> value, outcome |-> outcome,
                          before |-> job, at |-> now]
    /\ UNCHANGED now
    /\ UNCHANGED <<storeVars, userVars, paymentVars>>

\* Time passes.
Tick ==
    /\ now < MaxTime
    /\ now' = now + 1
    /\ UNCHANGED <<job, jobLast>>
    /\ UNCHANGED <<storeVars, userVars, paymentVars>>

JobInit ==
    /\ job = BlankJob
    /\ now = 0
    /\ jobLast = [key |-> "none", value |-> None, outcome |-> "none",
                  before |-> BlankJob, at |-> 0]

JobNext ==
    \/ \E a \in JobAssignments : AssignJob(a[1], a[2])
    \/ Tick

(***************************************************************************)
(* Specifications                                                          *)
(***************************************************************************)

Init == StoreInit /\ UserInit /\ PaymentInit /\ JobInit

\* The entity store.
Next == StoreNext

Spec == Init /\ [][Next]_vars

\* Operations on a User object.
SpecUser == Init /\ [][UserNext]_vars

\* One assignment to User.email, for every string of the alphabet.
InitEmail == StoreInit /\ EmailInit /\ PaymentInit /\ JobInit

SpecEmail == InitEmail /\ [][AssignEmail]_vars

\* Assignments to a Payment object.
SpecPayment == Init /\ [][PaymentNext]_vars

\* Assignments to a Job object while time passes.
SpecJob == Init /\ [][JobNext]_vars

(***************************************************************************)
(* Properties                                                              *)
(***************************************************************************)

\* C1: deleting a User removes every Payment and every JobApplication that
\* references it: in every state of the store each Payment and each
\* JobApplication references a user row that exists, and right after a
\* delete of user u no row references u.
C1_UserDeleteLeavesNoOrphans ==
    /\ \A p \in payments : p.user_id \in users
    /\ \A a \in applications : a.user_id \in users
    /\ storeLast.op = "delete_user" =>
           /\ \A p \in payments : p.user_id # storeLast.id
           /\ \A a \in applications : a.user_id # storeLast.id

\* C1 witness: a user with a payment and an application was deleted, and
\* both rows went with it.
C1_Witness ==
    /\ storeLast.op = "delete_user"
    /\ storeLast.removed = 2
    /\ payments = {}
    /\ applications = {}

\* C2: deleting a Job removes all JobApplications and all ExtraResources of
\* that job: no JobApplication and no ExtraResource of a job that is no
\* longer in the store remains.
C2_JobDeleteLeavesNoOrphans ==
    /\ \A a \in applications : a.job_id \in jobs
    /\ \A r \in resources : r.job \in jobs

\* C9: serializing any entity of the store returns a dict, and a dict that
\* is embedded in another entity's dict embeds nothing itself.
C9_SerializationOneLevelDeep ==
    LET dicts == {User_to_dict(u) : u \in users}
                     \cup {Job_to_dict(j) : j \in jobs}
                     \cup {Payment_to_dict(p) : p \in payments}
                     \cup {JobApplication_to_dict(a) : a \in applications}
                     \cup {ExtraResource_to_dict(r) : r \in resources}
    IN  \A d \in dicts :
            /\ d.raised = None
            /\ \A e \in d.embedded : e.raised = None /\ e.embedded = {}

\* C3 as stated: an amount is accepted if and only if it equals 5000.
C3_AmountAcceptedIffFixedConstant ==
    paymentLast.key = "amount" =>
        (paymentLast.outcome = "ok" <=> paymentLast.value = Some(5000))

\* C3 as amended: an amount is accepted if and only if it is greater than
\* 0; an accepted amount is stored and a rejected one leaves the stored
\* amount as it was.
C3_AmountAcceptedIffPositive ==
    (paymentLast.key = "amount" /\ paymentLast.value # None) =>
        /\ paymentLast.outcome = "ok" <=> Val(paymentLast.value) > 0
        /\ paymentLast.outcome = "ValueError" <=> Val(paymentLast.value) <= 0
        /\ payment.amount = IF Val(paymentLast.value) > 0
                            THEN paymentLast.value
                            ELSE paymentLast.before.amount

\* C3 witness: the amount 100 was assigned and accepted.
C3_Witness ==
    /\ paymentLast.key = "amount"
    /\ paymentLast.value = Some(100)
    /\ paymentLast.outcome = "ok"
    /\ payment.amount = Some(100)

C7_SalaryAcceptedIffNonNegative ==
    jobLast.key = "salary" =>
        (jobLast.outcome = "ok" <=>
            (jobLast.value = None \/ Val(jobLast.value) >= 0))

\* C7 as amended: a salary is accepted if and only if it is strictly
\* greater than 0; 0 and negative values are rejected with ValueError and
\* None raises TypeError.
C7_SalaryAcceptedIffPositive ==
    jobLast.key = "salary" =>
        IF jobLast.value = None
        THEN jobLast.outcome = "TypeError" /\ job = jobLast.before
        ELSE /\ jobLast.outcome = "ok" <=> Val(jobLast.value) > 0
             /\ jobLast.outcome = "ValueError" <=> Val(jobLast.value) <= 0
             /\ job.salary = IF Val(jobLast.value) > 0
                             THEN jobLast.value
                             ELSE jobLast.before.salary

\* C7 witness: the salary 0 was assigned and rejected.
C7_Witness ==
    /\ jobLast.key = "salary"
    /\ jobLast.value = Some(0)
    /\ jobLast.outcome = "ValueError"
    /\ job.salary = jobLast.before.salary

C5_EmailWholeStringChecked ==
    (userLast.op # "none" /\ emailArg # None) =>
        (userLast.failedAt = 0 => LocalAtDomainTld(Val(emailArg)))

\* The assignments of the last operation on the User that were reached:
\* those up to the one that raised.
Reached ==
    {i \in 1..Len(userLast.as) : userLast.failedAt = 0 \/ i <= userLast.failedAt}

\* C6 as stated: a name shorter than 3 characters is rejected.
C6_ShortNameRejected ==
    \A i \in Reached :
        (userLast.as[i][1] = "name" /\ Len(Val(userLast.as[i][2])) < 3) =>
            userLast.failedAt = i

\* C6 as amended: a name of any length is accepted: no assignment to name
\* is the one that raises, and a name assigned by an operation that ran to
\* its end is stored.
C6_NameAcceptedAtAnyLength ==
    /\ \A i \in 1..Len(userLast.as) :
           userLast.as[i][1] = "name" => userLast.failedAt # i
    /\ (userLast.failedAt = 0 /\ Len(userLast.as) = 1
            /\ userLast.as[1][1] = "name") => user.name = userLast.as[1][2]

\* C6 witness: a name of 2 characters was assigned and stored.
C6_Witness ==
    /\ userLast.op = "update"
    /\ userLast.failedAt = 0
    /\ userLast.as = <<<<"name", Some(Str(2))>>>>
    /\ user.name = Some(Str(2))

\* C8 as stated: when an assignment of an operation is rejected the entity
\* is as it was before the operation.
C8_NoPartialUpdate ==
    userLast.failedAt # 0 => user = userLast.before

UserKeys == {"name", "email", "role", "password_hash"}

\* C8 as amended: when an assignment is rejected, the rejected attribute
\* and every attribute the operation had not assigned before it keep their
\* values (attributes assigned earlier in the same update keep their new
\* ones), and a constructor call that is rejected leaves the entity as it
\* was.
C8_RejectionKeepsUnassignedFields ==
    userLast.failedAt # 0 =>
        /\ userLast.op = "new" => user = userLast.before
        /\ \A f \in UserKeys :
               (\A i \in 1..(userLast.failedAt - 1) : userLast.as[i][1] # f)
                   => user[f] = userLast.before[f]
        /\ \A i \in 1..(userLast.failedAt - 1) :
               User_validates(userLast.as[i][1], userLast.as[i][2]) = "ok"
        /\ User_validates(userLast.as[userLast.failedAt][1],
                          userLast.as[userLast.failedAt][2]) # "ok"

\* C8 witness: the second assignment of an update was rejected, after a
\* first one to another attribute that was accepted and is kept.
C8_Witness ==
    /\ userLast.op = "update"
    /\ userLast.failedAt = 2
    /\ userLast.as[1][1] # userLast.as[2][1]
    /\ user[userLast.as[1][1]] = userLast.as[1][2]
    /\ user[userLast.as[2][1]] = userLast.before[userLast.as[2][1]]
    /\ user # userLast.before

====
